---- MODULE Spec2Model ----
(***************************************************************************)
(* Model of the ray tracer challenge crate: the canvas and its colours     *)
(* (src/src/canvas.rs), the PPM serializer (Ppm, same file), the vector    *)
(* arithmetic the simulator uses (src/src/math.rs) and the projectile      *)
(* simulator with its two driver loops (src/src/sim.rs, src/src/main.rs).  *)
(*                                                                         *)
(* Representation of the machine types:                                    *)
(*  - a colour channel (f32) is an integer number of tenths: 15 is 1.5;    *)
(*    the channels used are those whose product with 255 an f32 computes   *)
(*    to the same integer part as exact arithmetic does;                   *)
(*  - the serialized text (String) is a sequence of one-character strings; *)
(*  - a usize is its two's-complement residue: r >= 0 is the value r, and  *)
(*    r < 0 is the value 2^64 + r (usize::MAX is -1);                      *)
(*  - a vector or point component (f32) is an integer number of halves,    *)
(*    or one of PInf, NInf, NaN; a finite result beyond FMax halves        *)
(*    overflows to an infinity, as an f32 does beyond f32::MAX.            *)
(***************************************************************************)
EXTENDS Integers, Sequences, FiniteSets, TLC

VARIABLES cv, last, pc, nwrites, overflow_checks, sim, hist

vars == <<cv, last, pc, nwrites, overflow_checks, sim, hist>>

(***************************************************************************)
(* Bounds of the model                                                     *)
(***************************************************************************)
MaxWidth == 2
MaxHeight == 2
MaxWrites == 2
MaxPpmWidth == 10
MaxPpmHeight == 3
FMax == 12
MaxTicks == 5

(***************************************************************************)
(* usize arithmetic on two's-complement residues                           *)
(***************************************************************************)
\* unsigned a < b
ULess(a, b) ==
    IF a >= 0 /\ b < 0 THEN TRUE
    ELSE IF a < 0 /\ b >= 0 THEN FALSE
    ELSE a < b

\* a + b leaves the range of usize
UAddOverflows(a, b) ==
    IF a >= 0 /\ b >= 0 THEN FALSE
    ELSE IF a < 0 /\ b < 0 THEN TRUE
    ELSE a + b >= 0

\* a * b leaves the range of usize
UMulOverflows(a, b) ==
    IF a >= 0 /\ b >= 0 THEN FALSE
    ELSE IF a < 0 /\ b < 0 THEN TRUE
    ELSE IF a < 0 THEN b >= 2
    ELSE a >= 2

\* a - b leaves the range of usize
USubOverflows(a, b) == ULess(a, b)

(***************************************************************************)
(* Color                                                                   *)
(***************************************************************************)
RGB == 255

Tenths == 10

Color_new(red, green, blue) == <<red, green, blue>>

Black == Color_new(0, 0, 0)

\* the cast to u8 as a truncation to an integer followed by a reduction
\* modulo 256
AsU8_wrapping(q) ==
    IF q < 0 THEN (0 - ((0 - q) \div Tenths)) % 256
    ELSE (q \div Tenths) % 256

\* (channel * RGB) as u8: the product q is in tenths; the cast truncates
\* toward zero and saturates at the ends of u8
AsU8(q) ==
    IF q < 0 THEN 0
    ELSE IF q \div Tenths > 255 THEN 255
    ELSE q \div Tenths

get_rgb(c) == <<AsU8(c[1] * RGB), AsU8(c[2] * RGB), AsU8(c[3] * RGB)>>

DigitChar(d) == <<"0", "1", "2", "3", "4", "5", "6", "7", "8", "9">>[d + 1]

RECURSIVE Decimal(_)
\* Display of an unsigned integer: its decimal digits, most significant first
Decimal(n) ==
    IF n < 10 THEN <<DigitChar(n)>>
    ELSE Decimal(n \div 10) \o <<DigitChar(n % 10)>>

\* Display for Color: "{} {} {}" of the three u8 channels
to_string(c) ==
    LET rgb == get_rgb(c)
    IN  Decimal(rgb[1]) \o <<" ">> \o Decimal(rgb[2]) \o <<" ">> \o Decimal(rgb[3])

(***************************************************************************)
(* Canvas                                                                  *)
(***************************************************************************)
None == "None"

Some(c) == <<"Some", c>>

\* Canvas::new that sizes the buffer by the width alone
Canvas_new_square(width, height, color) ==
    [width |-> width, height |-> height,
     buffer |-> [i \in 1..(width * width) |->
                    IF color = None THEN Color_new(0, 0, 0) ELSE color[2]]]

Canvas_new(width, height, color) ==
    [width |-> width, height |-> height,
     buffer |-> [i \in 1..(width * height) |->
                    IF color = None THEN Color_new(0, 0, 0) ELSE color[2]]]

len(c) == c.height * c.width

\* x + self.width * y, with the build's overflow behaviour: under overflow
\* checks an overflowing product or sum panics, otherwise it wraps
get_index_panics(c, x, y) ==
    overflow_checks /\ (UMulOverflows(c.width, y) \/ UAddOverflows(x, c.width * y))

\* get_index without the row stride
get_index_no_stride(c, x, y) == x + y

get_index(c, x, y) == x + c.width * y

\* Vec::get_mut(idx) / Vec index: idx names an element
InBuffer(c, idx) == idx >= 0 /\ idx < Len(c.buffer)

\* the canvas after a write_pixel(x, y, color) that returns
write_pixel(c, x, y, color) ==
    LET idx == get_index(c, x, y)
    IN  IF InBuffer(c, idx)
        THEN [c EXCEPT !.buffer[idx + 1] = color]
        ELSE c

\* the outcome of pixel_at(x, y): the colour, or the panic of the index
pixel_at(c, x, y) ==
    LET idx == get_index(c, x, y)
    IN  IF get_index_panics(c, x, y) \/ ~InBuffer(c, idx)
        THEN [panic |-> TRUE, color |-> Black]
        ELSE [panic |-> FALSE, color |-> c.buffer[idx + 1]]

(***************************************************************************)
(* Ppm                                                                     *)
(***************************************************************************)
NL == "\n"

\* header with the height written before the width
header_height_first(buffer, c) ==
    buffer \o <<"P", "3", NL>> \o Decimal(c.height) \o <<" ">> \o Decimal(c.width)
           \o <<NL>> \o Decimal(RGB) \o <<NL>>

header(buffer, c) ==
    buffer \o <<"P", "3", NL>> \o Decimal(c.width) \o <<" ">> \o Decimal(c.height)
           \o <<NL>> \o Decimal(RGB) \o <<NL>>

\* serialize_color without the test of the line limit
serialize_color_no_limit(st, c, i) ==
    LET rgb == to_string(c.buffer[i + 1])
        rgb_len == Len(rgb)
        wrap == st.counter > (c.width * rgb_len)
        buf1 == IF wrap THEN Append(st.buffer, NL) ELSE st.buffer
        counter1 == IF wrap THEN 0 ELSE st.counter
        buf2 == IF counter1 # 0 THEN Append(buf1, " ") ELSE buf1
    IN  [buffer |-> buf2 \o rgb, counter |-> counter1 + rgb_len + 1]

\* serialize_color with a counter that leaves the separator out
serialize_color_short_counter(st, c, i) ==
    LET rgb == to_string(c.buffer[i + 1])
        rgb_len == Len(rgb)
        wrap == st.counter > (c.width * rgb_len) \/ (st.counter + rgb_len + 1) >= 69
        buf1 == IF wrap THEN Append(st.buffer, NL) ELSE st.buffer
        counter1 == IF wrap THEN 0 ELSE st.counter
        buf2 == IF counter1 # 0 THEN Append(buf1, " ") ELSE buf1
    IN  [buffer |-> buf2 \o rgb, counter |-> counter1 + rgb_len]

\* serialize_color testing the counter for the separator before the reset
serialize_color_space_after_wrap(st, c, i) ==
    LET rgb == to_string(c.buffer[i + 1])
        rgb_len == Len(rgb)
        wrap == st.counter > (c.width * rgb_len) \/ (st.counter + rgb_len + 1) >= 69
        buf1 == IF wrap THEN Append(st.buffer, NL) ELSE st.buffer
        counter1 == IF wrap THEN 0 ELSE st.counter
        buf2 == IF st.counter # 0 THEN Append(buf1, " ") ELSE buf1
    IN  [buffer |-> buf2 \o rgb, counter |-> counter1 + rgb_len + 1]

\* one iteration of the loop of serialize_colors on pixel i (0-based), from
\* the text and counter the previous iterations left
serialize_color(st, c, i) ==
    LET rgb == to_string(c.buffer[i + 1])
        rgb_len == Len(rgb)
        wrap == st.counter > (c.width * rgb_len) \/ (st.counter + rgb_len + 1) >= 69
        buf1 == IF wrap THEN Append(st.buffer, NL) ELSE st.buffer
        counter1 == IF wrap THEN 0 ELSE st.counter
        buf2 == IF counter1 # 0 THEN Append(buf1, " ") ELSE buf1
    IN  [buffer |-> buf2 \o rgb, counter |-> counter1 + rgb_len + 1]

RECURSIVE serialize_loop(_, _, _)
\* CanvasIter: pixels 0 .. len-1 in buffer order
\* (the singleton set makes each iteration's result a value before the next
\* iteration reads it)
serialize_loop(st, c, i) ==
    IF i < len(c)
    THEN CHOOSE end \in {serialize_loop(st1, c, i + 1) : st1 \in {serialize_color(st, c, i)}} : TRUE
    ELSE st

serialize_colors(buffer, c) ==
    serialize_loop([buffer |-> buffer, counter |-> 0], c, 0).buffer

\* ends_with_new_line without its test
ends_with_new_line_always(buffer) == Append(buffer, NL)

ends_with_new_line(buffer) ==
    IF ~(Len(buffer) > 0 /\ buffer[Len(buffer)] = NL)
    THEN Append(buffer, NL)
    ELSE buffer

stringify(c) == ends_with_new_line(serialize_colors(header(<<>>, c), c))

to_ppm(c) == stringify(c)

(***************************************************************************)
(* f32 components of Point and Vector                                      *)
(***************************************************************************)
Halves == 2

PInf == FMax + 1

NInf == -(FMax + 1)

NaN == FMax + 2

Finite(f) == f >= -FMax /\ f <= FMax

\* f32 addition
FAdd(a, b) ==
    IF a = NaN \/ b = NaN THEN NaN
    ELSE IF a = PInf THEN (IF b = NInf THEN NaN ELSE PInf)
    ELSE IF a = NInf THEN (IF b = PInf THEN NaN ELSE NInf)
    ELSE IF b = PInf \/ b = NInf THEN b
    ELSE IF a + b > FMax THEN PInf
    ELSE IF a + b < -FMax THEN NInf
    ELSE a + b

\* the nearest whole number of halves to n quarters, a tie going to the even
\* one (every odd n is a tie)
RoundTiesEven(n) ==
    LET f == n \div Halves
    IN  IF n % Halves = 0 THEN f
        ELSE IF f % 2 = 0 THEN f
        ELSE f + 1

\* f32 multiplication: the product of two numbers of halves is a number of
\* quarters, rounded to the grid as IEEE 754 rounds to the representable values
FMul(a, b) ==
    IF a = NaN \/ b = NaN THEN NaN
    ELSE IF (a \in {PInf, NInf} /\ b = 0) \/ (a = 0 /\ b \in {PInf, NInf}) THEN NaN
    ELSE IF a \in {PInf, NInf} \/ b \in {PInf, NInf}
         THEN (IF (a > 0) = (b > 0) THEN PInf ELSE NInf)
    ELSE IF RoundTiesEven(a * b) > FMax THEN PInf
    ELSE IF RoundTiesEven(a * b) < -FMax THEN NInf
    ELSE RoundTiesEven(a * b)

\* f32 negation
FNeg(a) == IF a = NaN THEN NaN ELSE -a

\* f32 subtraction
FSub(a, b) == FAdd(a, FNeg(b))

\* float_eq!(a, b, ulps <= 0): a NaN equals nothing
FEq(a, b) == a # NaN /\ b # NaN /\ a = b

\* f as usize: truncates toward zero and saturates; NaN gives 0
AsUsize(f) ==
    IF f = NaN THEN 0
    ELSE IF f = PInf THEN -1
    ELSE IF f < 0 THEN 0
    ELSE f \div Halves

\* f <= 0.
LeZero(f) == f # NaN /\ f # PInf /\ f <= 0

Point_new(x, y, z) == <<x, y, z>>

Vector_new(x, y, z) == <<x, y, z>>

\* impl AddAssign<&Vector> for Point
Point_add_assign(p, rhs) == <<FAdd(p[1], rhs[1]), FAdd(p[2], rhs[2]), FAdd(p[3], rhs[3])>>

\* impl Add<&Vector> for &Vector
Vector_add(a, rhs) == <<FAdd(a[1], rhs[1]), FAdd(a[2], rhs[2]), FAdd(a[3], rhs[3])>>

\* impl AddAssign for Vector
Vector_add_assign(a, rhs) == <<FAdd(a[1], rhs[1]), FAdd(a[2], rhs[2]), FAdd(a[3], rhs[3])>>

(***************************************************************************)
(* Simulator                                                               *)
(***************************************************************************)
\* cross with vec.2 in place of vec.1 in the first component
cross_x_typo(a, vec) ==
    LET x == FSub(FMul(a[2], vec[3]), FMul(a[3], vec[3]))
        y == FSub(FMul(a[3], vec[1]), FMul(a[1], vec[3]))
        z == FSub(FMul(a[1], vec[2]), FMul(a[2], vec[1]))
    IN  Vector_new(x, y, z)

\* Vector::cross
cross(a, vec) ==
    LET x == FSub(FMul(a[2], vec[3]), FMul(a[3], vec[2]))
        y == FSub(FMul(a[3], vec[1]), FMul(a[1], vec[3]))
        z == FSub(FMul(a[1], vec[2]), FMul(a[2], vec[1]))
    IN  Vector_new(x, y, z)

\* impl Neg for Vector
Vector_neg(a) == Vector_new(FNeg(a[1]), FNeg(a[2]), FNeg(a[3]))

\* impl PartialEq for Vector
Vector_eq(a, other) == FEq(a[1], other[1]) /\ FEq(a[2], other[2]) /\ FEq(a[3], other[3])

Simulator_new(env, proj) == [env |-> env, proj |-> proj]

\* tick with the velocity updated before the position
tick_velocity_first(s) ==
    LET v1 == Vector_add_assign(s.proj.v, Vector_add(s.env.gravity, s.env.wind))
        pos1 == Point_add_assign(s.proj.pos, v1)
    IN  [s EXCEPT !.proj = [pos |-> pos1, v |-> v1]]

\* the simulator after tick()
tick(s) ==
    LET pos1 == Point_add_assign(s.proj.pos, s.proj.v)
        v1 == Vector_add_assign(s.proj.v, Vector_add(s.env.gravity, s.env.wind))
    IN  [s EXCEPT !.proj = [pos |-> pos1, v |-> v1]]

IdleSim ==
    Simulator_new([gravity |-> Vector_new(0, 0, 0), wind |-> Vector_new(0, 0, 0)],
                  [pos |-> Point_new(0, 0, 0), v |-> Vector_new(0, 0, 0)])

\* the count of ticks, kept up to MaxTicks ("MaxTicks or more")
Ticked(h) == [h EXCEPT !.n = IF h.n < MaxTicks THEN h.n + 1 ELSE h.n]

(***************************************************************************)
(* The canvas API: Canvas::new, then write_pixel, pixel_at and to_ppm      *)
(***************************************************************************)
Fills == {None, Some(Color_new(10, 8, 6))}

Colors == {Color_new(10, 0, 0), Color_new(0, 5, 0)}

Init ==
    /\ \E w \in 0..MaxWidth, h \in 0..MaxHeight, fill \in Fills :
          /\ cv = Canvas_new(w, h, fill)
          /\ last = [op |-> "new", width |-> w, height |-> h, fill |-> fill]
    /\ pc = "api"
    /\ nwrites = 0
    /\ overflow_checks \in BOOLEAN
    /\ sim = IdleSim
    /\ hist = [n |-> 0, start |-> IdleSim]

WritePixel(x, y, color) ==
    /\ pc = "api"
    /\ nwrites < MaxWrites
    /\ nwrites' = nwrites + 1
    /\ last' = [op |-> "write_pixel", x |-> x, y |-> y, color |-> color, before |-> cv]
    /\ IF get_index_panics(cv, x, y)
       THEN cv' = cv /\ pc' = "panicked"
       ELSE cv' = write_pixel(cv, x, y, color) /\ pc' = pc
    /\ UNCHANGED <<overflow_checks, sim, hist>>

PixelAt(x, y) ==
    /\ pc = "api"
    /\ last' = [op |-> "pixel_at", x |-> x, y |-> y, result |-> pixel_at(cv, x, y)]
    /\ pc' = IF pixel_at(cv, x, y).panic THEN "panicked" ELSE pc
    /\ UNCHANGED <<cv, nwrites, overflow_checks, sim, hist>>

ToPpm ==
    /\ pc = "api"
    /\ last' = [op |-> "to_ppm", out |-> to_ppm(cv)]
    /\ UNCHANGED <<cv, pc, nwrites, overflow_checks, sim, hist>>

Next ==
    \/ \E x \in 0..cv.width, y \in 0..cv.height, color \in Colors : WritePixel(x, y, color)
    \/ \E x \in 0..cv.width, y \in 0..cv.height : PixelAt(x, y)
    \/ ToPpm

Spec == Init /\ [][Next]_vars

(***************************************************************************)
(* The serializer on larger canvases: each canvas is Canvas::new followed  *)
(* by write_pixel calls from a fixed list                                  *)
(***************************************************************************)
PpmFills == {None, Some(Color_new(10, 8, 6)), Some(Color_new(15, 0, 0))}

PpmWrites ==
    << <<0, 0, Color_new(15, 0, 0)>>, <<2, 1, Color_new(0, 5, 0)>>,
       <<4, 2, Color_new(-5, 0, 10)>>, <<1, 0, Color_new(10, 8, 6)>>,
       <<3, 0, Color_new(0, 0, 0)>> >>

RECURSIVE ApplyWrites(_, _, _)
\* write_pixel for the writes of PpmWrites whose index is in ws, in order
ApplyWrites(c, ws, k) ==
    IF k > Len(PpmWrites) THEN c
    ELSE ApplyWrites(IF k \in ws
                     THEN write_pixel(c, PpmWrites[k][1], PpmWrites[k][2], PpmWrites[k][3])
                     ELSE c, ws, k + 1)

InitPpm ==
    /\ \E w \in 0..MaxPpmWidth, h \in 0..MaxPpmHeight, fill \in PpmFills,
          ws \in SUBSET (1..Len(PpmWrites)) :
          /\ cv = ApplyWrites(Canvas_new(w, h, fill), ws, 1)
          /\ nwrites = Cardinality(ws)
    /\ last = [op |-> "new"]
    /\ pc = "api"
    /\ overflow_checks \in BOOLEAN
    /\ sim = IdleSim
    /\ hist = [n |-> 0, start |-> IdleSim]

NextPpm == ToPpm

SpecPpm == InitPpm /\ [][NextPpm]_vars

(***************************************************************************)
(* The simulator under its two drivers: the loop of main and the loop of   *)
(* Simulator::draw                                                         *)
(***************************************************************************)
Gravities == {Vector_new(0, gy, 0) : gy \in {-2, -1, 0}}

Winds == {Vector_new(wx, wy, 0) : wx \in {-1, 0}, wy \in {-1, 0, 1, 2}}

Positions == {Point_new(0, py, 0) : py \in {0, 2, 5}}

Velocities == {Vector_new(vx, vy, 0) : vx \in {0, 3}, vy \in {-1, 0, 3}}

\* the canvas handed to draw; main has none
DrawCanvases == {Canvas_new(3, 3, None), Canvas_new(2, 1, None)}

InitSim ==
    /\ \E g \in Gravities, w \in Winds, p \in Positions, v \in Velocities :
          sim = Simulator_new([gravity |-> g, wind |-> w], [pos |-> p, v |-> v])
    /\ hist = [n |-> 0, start |-> sim]
    /\ \/ pc = "main_loop" /\ cv = Canvas_new(0, 0, None)
       \/ pc = "draw_loop" /\ cv \in DrawCanvases
    /\ last = [op |-> "new"]
    /\ nwrites = 0
    /\ overflow_checks \in BOOLEAN

\* one iteration of the loop of main
MainStep ==
    /\ pc = "main_loop"
    /\ sim' = tick(sim)
    /\ hist' = Ticked(hist)
    /\ pc' = IF LeZero(sim'.proj.pos[2]) THEN "done" ELSE pc
    /\ UNCHANGED <<cv, last, nwrites, overflow_checks>>

\* one iteration of the loop of draw; the iteration that breaks goes on to
\* canvas.to_ppm()
DrawStep ==
    /\ pc = "draw_loop"
    /\ sim' = tick(sim)
    /\ hist' = Ticked(hist)
    /\ LET height == cv.height
           x == AsUsize(sim'.proj.pos[1])
           t == AsUsize(sim'.proj.pos[2])
           y == height - t
       IN  IF (overflow_checks /\ USubOverflows(height, t)) \/ get_index_panics(cv, x, y)
           THEN pc' = "panicked" /\ UNCHANGED <<cv, last>>
           ELSE /\ cv' = write_pixel(cv, x, y, Color_new(10, 0, 0))
                /\ IF LeZero(sim'.proj.pos[2])
                   THEN pc' = "done" /\ last' = [op |-> "to_ppm", out |-> to_ppm(cv')]
                   ELSE pc' = pc /\ last' = last
    /\ UNCHANGED <<nwrites, overflow_checks>>

NextSim == MainStep \/ DrawStep

SpecSim == InitSim /\ [][NextSim]_vars

\* both loops run on: neither waits on anything
SpecLive == InitSim /\ [][NextSim]_vars /\ WF_vars(NextSim)

(***************************************************************************)
(* The vector algebra: two vectors, then their cross products               *)
(***************************************************************************)
CrossComponents == {-6, -1, 0, 3, 5}

CrossVectors == {Vector_new(x, y, z) : x \in CrossComponents, y \in CrossComponents, z \in CrossComponents}

InitMath ==
    /\ \E a \in CrossVectors, b \in CrossVectors : last = [op |-> "vectors", a |-> a, b |-> b]
    /\ pc = "math"
    /\ cv = Canvas_new(0, 0, None)
    /\ nwrites = 0
    /\ overflow_checks \in BOOLEAN
    /\ sim = IdleSim
    /\ hist = [n |-> 0, start |-> IdleSim]

\* a.cross(&b), and -(b.cross(&a))
Cross ==
    /\ pc = "math"
    /\ last' = [op |-> "cross", a |-> last.a, b |-> last.b,
                ab |-> cross(last.a, last.b), nba |-> Vector_neg(cross(last.b, last.a))]
    /\ pc' = "done"
    /\ UNCHANGED <<cv, nwrites, overflow_checks, sim, hist>>

NextMath == Cross

SpecMath == InitMath /\ [][NextMath]_vars

(***************************************************************************)
(* Reading a serialized text back: its lines and its tokens                *)
(***************************************************************************)
Indices(s) == [i \in 1..Len(s) |-> i]

\* the positions of the line feeds of s, in order
LineFeeds(s) == SelectSeq(Indices(s), LAMBDA i : s[i] = NL)

\* the k-th line of s, given the positions nls of its line feeds
LineOf(s, nls, k) == SubSeq(s, IF k = 1 THEN 1 ELSE nls[k - 1] + 1, nls[k] - 1)

\* the lines after the three header lines
DataLines(s) ==
    LET nls == LineFeeds(s)
    IN  [k \in 1..(Len(nls) - 3) |-> LineOf(s, nls, k + 3)]

\* the text after the three header lines
PixelData(s) ==
    LET nls == LineFeeds(s)
    IN  SubSeq(s, nls[3] + 1, Len(s))

RECURSIVE JoinRow(_, _, _)
\* the first k pixels of row r (0-based) of c as text, one space between them
JoinRow(c, r, k) ==
    IF k = 0 THEN <<>>
    ELSE IF k = 1 THEN to_string(c.buffer[r * c.width + 1])
    ELSE JoinRow(c, r, k - 1) \o <<" ">> \o to_string(c.buffer[r * c.width + k])

RowText(c, r) == JoinRow(c, r, c.width)

\* the k-th channel value (1-based) of the canvas in row-major pixel order
Channel(c, k) == get_rgb(c.buffer[((k - 1) \div 3) + 1])[((k - 1) % 3) + 1]

\* the k-th channel (1-based) of the canvas as stored, in tenths
RawChannel(c, k) == c.buffer[((k - 1) \div 3) + 1][((k - 1) % 3) + 1]

DigitValue(ch) == CHOOSE d \in 0..9 : DigitChar(d) = ch

RECURSIVE ParseNat(_)
\* the number written by a sequence of decimal digits
ParseNat(s) ==
    IF Len(s) = 0 THEN 0
    ELSE ParseNat(SubSeq(s, 1, Len(s) - 1)) * 10 + DigitValue(s[Len(s)])

\* the k-th token of the pixel data of s: the text between two separators
Token(s, k) ==
    LET data == PixelData(s)
        seps == SelectSeq(Indices(data), LAMBDA i : data[i] \in {" ", NL})
    IN  SubSeq(data, IF k = 1 THEN 1 ELSE seps[k - 1] + 1, seps[k] - 1)

OutOfRange(c, x, y) == x >= c.width \/ y >= c.height

Serialized == last.op = "to_ppm"

(***************************************************************************)
(* Claims                                                                  *)
(***************************************************************************)

\* C1: write_pixel(x, y, color) with x >= width or y >= height raises no
\* error and leaves every pixel of the canvas unchanged.
C1_OutOfRangeWriteIsNoOp ==
    (last.op = "write_pixel" /\ OutOfRange(last.before, last.x, last.y))
        => (pc # "panicked" /\ cv = last.before)

\* C2: pixel_at(x, y) with x >= width or y >= height always fails and never
\* returns the colour of a pixel of the canvas.
C2_OutOfRangeReadFails ==
    (last.op = "pixel_at" /\ OutOfRange(cv, last.x, last.y)) => last.result.panic

\* C3: after an in-range write_pixel(x, y, c), pixel_at(x, y) returns exactly
\* c and pixel_at of every other in-range coordinate returns what it returned
\* before the write.
C3_WriteThenRead ==
    (last.op = "write_pixel" /\ ~OutOfRange(last.before, last.x, last.y))
        => /\ pc # "panicked"
           /\ cv.width = last.before.width /\ cv.height = last.before.height
           /\ pixel_at(cv, last.x, last.y) = [panic |-> FALSE, color |-> last.color]
           /\ \A x \in 0..(cv.width - 1), y \in 0..(cv.height - 1) :
                 <<x, y>> # <<last.x, last.y>>
                     => pixel_at(cv, x, y) = pixel_at(last.before, x, y)

C3_Witness ==
    /\ last.op = "write_pixel"
    /\ ~OutOfRange(last.before, last.x, last.y)
    /\ nwrites = 2
    /\ len(cv) >= 4
    /\ pixel_at(last.before, last.x, last.y).color # last.color
    /\ \E i, j \in 1..len(cv) : last.before.buffer[i] # last.before.buffer[j]

\* every row of the canvas, written on one line, stays under the limit the
\* serializer tests (69), so under the 70 characters of the format as well
RowsFit(c) == \A r \in 0..(c.height - 1) : Len(RowText(c, r)) + 1 < 69

\* C4: when a whole canvas row fits within the line limit, each row of
\* pixels is serialized as exactly one output line, whatever the colours: a
\* line break after every width-th pixel and nowhere else.
C4_OneLinePerRow ==
    (Serialized /\ cv.width > 0 /\ RowsFit(cv))
        => DataLines(last.out) = [r \in 1..cv.height |-> RowText(cv, r - 1)]

\* C5: no line of the serialized text is longer than 70 characters: every 71
\* consecutive characters hold a line feed.
C5_LinesAtMost70 ==
    Serialized
        => \A i \in 1..(Len(last.out) - 70) : \E j \in i..(i + 70) : last.out[j] = NL

C5_Witness ==
    /\ Serialized
    /\ \E r \in 0..(cv.height - 1) : Len(RowText(cv, r)) > 70
    /\ \E k \in DOMAIN DataLines(last.out) : Len(DataLines(last.out)[k]) >= 59

Triplet == <<"2", "5", "5", " ", "2", "0", "4", " ", "1", "5", "3">>

FiveTriplets ==
    Triplet \o <<" ">> \o Triplet \o <<" ">> \o Triplet \o <<" ">> \o Triplet
            \o <<" ">> \o Triplet

\* C6: the 10x2 canvas filled with the colour whose text is "255 204 153"
\* serializes, after the header, to exactly four lines of five triplets.
C6_TenByTwo ==
    (Serialized /\ cv = Canvas_new(10, 2, Some(Color_new(10, 8, 6))))
        => DataLines(last.out) = <<FiveTriplets, FiveTriplets, FiveTriplets, FiveTriplets>>

C6_Witness ==
    /\ Serialized
    /\ cv = Canvas_new(10, 2, Some(Color_new(10, 8, 6)))
    /\ to_string(cv.buffer[1]) = Triplet

\* C7: the pixel data is the channel values of the pixels in row-major order,
\* none dropped or repeated, each followed by exactly one separator (so no
\* leading, trailing or doubled space and no empty line), and a line feed
\* comes only after the third value of a pixel.
C7_WholeTriplets ==
    Serialized
        => LET data == PixelData(last.out)
               seps == SelectSeq(Indices(data), LAMBDA i : data[i] \in {" ", NL})
               n == 3 * len(cv)
           IN  /\ Len(seps) = n
               /\ n = 0 => data = <<>>
               /\ n > 0 => (seps[n] = Len(data) /\ data[seps[n]] = NL)
               /\ \A k \in 1..Len(seps) :
                     /\ SubSeq(data, IF k = 1 THEN 1 ELSE seps[k - 1] + 1, seps[k] - 1)
                           = Decimal(Channel(cv, k))
                     /\ data[seps[k]] = NL => k % 3 = 0

C7_Witness ==
    /\ Serialized
    /\ Len(DataLines(last.out)) > cv.height
    /\ cv.height >= 2
    /\ \E i, j \in 1..len(cv) : Len(to_string(cv.buffer[i])) # Len(to_string(cv.buffer[j]))

\* C8: the serialized text ends with exactly one line feed, also for a
\* canvas of zero width or zero height.
C8_OneTrailingNewline ==
    Serialized
        => /\ Len(last.out) >= 1
           /\ last.out[Len(last.out)] = NL
           /\ Len(last.out) >= 2 => last.out[Len(last.out) - 1] # NL

C8_Witness ==
    /\ Serialized
    /\ len(cv) = 0
    /\ cv.width + cv.height > 0

\* the n-th velocity and position of the closed form, in exact arithmetic
ClosedVelocity(h, i) ==
    h.start.proj.v[i] + h.n * (h.start.env.gravity[i] + h.start.env.wind[i])

ClosedPosition(h, i) ==
    h.start.proj.pos[i] + h.n * h.start.proj.v[i]
        + ((h.n * (h.n - 1)) \div 2) * (h.start.env.gravity[i] + h.start.env.wind[i])

ClosedForm ==
    /\ sim.env = hist.start.env
    /\ \A i \in 1..3 :
          /\ sim.proj.v[i] = ClosedVelocity(hist, i)
          /\ sim.proj.pos[i] = ClosedPosition(hist, i)

AllFinite(proj) == \A i \in 1..3 : Finite(proj.pos[i]) /\ Finite(proj.v[i])

\* C9: after n ticks from (p0, v0) the environment is unchanged, the
\* velocity is v0 + n*(gravity+wind) and the position is
\* p0 + n*v0 + (n*(n-1)/2)*(gravity+wind), for every n >= 0.
C9_ClosedFormAlways == hist.n < MaxTicks => ClosedForm

\* C9 as amended: the same, as long as no sum of a tick left the range of
\* the finite f32 values (position and velocity are still finite).
C9_ClosedFormWhileFinite == (hist.n < MaxTicks /\ AllFinite(sim.proj)) => ClosedForm

C9_Witness ==
    /\ hist.n = 3
    /\ AllFinite(sim.proj)
    /\ pc \in {"main_loop", "draw_loop"}
    /\ hist.start.proj.v[2] # 0
    /\ hist.start.env.gravity[2] + hist.start.env.wind[2] # 0
    /\ hist.start.env.wind[1] # 0

\* gravity is strictly downward and non-zero
GravityDown ==
    /\ sim.env.gravity[1] = 0
    /\ sim.env.gravity[2] < 0
    /\ sim.env.gravity[3] = 0

LoopEnded == pc \in {"done", "panicked"}

\* C10: whenever gravity is strictly downward and non-zero, the driver loop
\* (tick, then stop once the vertical position is <= 0) ends after finitely
\* many ticks, for every wind and every initial position and velocity.
C10_LoopTerminates == GravityDown => <>LoopEnded

\* C11: the buffer holds width*height pixels right after Canvas::new and
\* after every write_pixel call, in range or not; a write leaves width and
\* height as they were; and a fresh canvas has the requested width and height
\* and holds the fill color (black when none is given) in every pixel.
C11_BufferShape ==
    /\ Len(cv.buffer) = cv.width * cv.height
    /\ last.op = "new" =>
          /\ cv.width = last.width
          /\ cv.height = last.height
          /\ \A i \in 1..Len(cv.buffer) :
                cv.buffer[i] = IF last.fill = None THEN <<0, 0, 0>> ELSE last.fill[2]
    /\ last.op = "write_pixel" =>
          /\ cv.width = last.before.width
          /\ cv.height = last.before.height
          /\ Len(cv.buffer) = Len(last.before.buffer)

\* the second of two writes was out of range on a canvas that is not square,
\* and it changed a pixel
C11_Witness ==
    /\ last.op = "write_pixel"
    /\ nwrites = 2
    /\ cv.width # cv.height
    /\ OutOfRange(cv, last.x, last.y)
    /\ cv # last.before
    /\ pc = "api"

\* C12: in the serialized text every channel c is written as the integer
\* truncate(c * 255) limited to 0..255: the number written is never outside
\* 0..255, a channel above 1 gives 255, a negative channel gives 0, and a
\* channel in 0..1 gives the integer part of c * 255, the fraction dropped
\* (0.5 gives 127).
C12_ChannelClamped ==
    Serialized
        => \A k \in 1..(3 * len(cv)) :
              LET t == Token(last.out, k)
                  v == ParseNat(t)
                  c == RawChannel(cv, k)
              IN  /\ Len(t) > 0
                  /\ \A i \in 1..Len(t) : \E d \in 0..9 : t[i] = DigitChar(d)
                  /\ v >= 0 /\ v <= 255
                  /\ c > Tenths => v = 255
                  /\ c < 0 => v = 0
                  /\ (c >= 0 /\ c <= Tenths)
                        => (v * Tenths <= c * 255 /\ c * 255 < (v + 1) * Tenths)
                  /\ 2 * c = Tenths => v = 127

\* a canvas with a channel above 1, a negative channel and a channel of 0.5
\* has been serialized
C12_Witness ==
    /\ Serialized
    /\ \E k \in 1..(3 * len(cv)) : RawChannel(cv, k) > Tenths
    /\ \E k \in 1..(3 * len(cv)) : RawChannel(cv, k) < 0
    /\ \E k \in 1..(3 * len(cv)) :
          2 * RawChannel(cv, k) = Tenths /\ Token(last.out, k) = <<"1", "2", "7">>

\* the digits of s are the decimal notation of n, with no leading zero
Writes(s, n) ==
    /\ Len(s) > 0
    /\ \A i \in 1..Len(s) : \E d \in 0..9 : s[i] = DigitChar(d)
    /\ (Len(s) > 1 => s[1] # "0")
    /\ ParseNat(s) = n

\* C13: for every canvas of width w and height h the serialized text begins
\* with the three lines "P3", "<w> <h>" (both in decimal, one space between
\* them) and "255", in that order, and the pixel data, if any, comes after.
C13_HeaderLines ==
    Serialized
        => LET s == last.out
               nls == LineFeeds(s)
           IN  /\ Len(nls) >= 3
               /\ LineOf(s, nls, 1) = <<"P", "3">>
               /\ LET l2 == LineOf(s, nls, 2)
                      sp == SelectSeq(Indices(l2), LAMBDA i : l2[i] = " ")
                  IN  /\ Len(sp) = 1
                      /\ Writes(SubSeq(l2, 1, sp[1] - 1), cv.width)
                      /\ Writes(SubSeq(l2, sp[1] + 1, Len(l2)), cv.height)
               /\ LineOf(s, nls, 3) = <<"2", "5", "5">>
               /\ (len(cv) > 0 => Len(s) > nls[3])

\* a canvas with a two-digit width, a different height and some pixels has
\* been serialized, and its second line reads "10 3"
C13_Witness ==
    /\ Serialized
    /\ cv.width = 10
    /\ cv.height = 3
    /\ LineOf(last.out, LineFeeds(last.out), 2) = <<"1", "0", " ", "3">>
    /\ Len(last.out) > LineFeeds(last.out)[3]

\* C14 as stated: for all vectors a and b, cross(a, b) equals the negation
\* of cross(b, a) component by component.
C14_CrossAntisymmetric ==
    last.op = "cross" => Vector_eq(last.ab, last.nba)

\* C14: for all vectors a and b such that no component of cross(a, b) is a
\* NaN, cross(a, b) equals the negation of cross(b, a) component by component.
C14_CrossAntisymmetricNoNaN ==
    (last.op = "cross" /\ \A i \in 1..3 : last.ab[i] # NaN)
        => Vector_eq(last.ab, last.nba)

\* a cross product of two different vectors with a rounded product, an
\* infinite component and a finite non-zero component, none of them a NaN
C14_Witness ==
    /\ last.op = "cross"
    /\ last.a # last.b
    /\ \A i \in 1..3 : last.ab[i] # NaN
    /\ \E i \in 1..3 : last.ab[i] \in {PInf, NInf}
    /\ \E i \in 1..3 : Finite(last.ab[i]) /\ last.ab[i] # 0
    /\ \E i, j \in 1..3 : (last.a[i] * last.b[j]) % Halves # 0

\* a state of Simulator::draw after at least one tick
Drawn == hist.n > 0 /\ (pc \in {"draw_loop", "panicked"} \/ (pc = "done" /\ Serialized))

\* C15: in Simulator::draw, at every tick of every run, truncate(position.y)
\* does not exceed the canvas height, so canvas_height - truncate(position.y)
\* does not underflow; draw never aborts; and once the projectile has landed
\* draw has reached the serialization.
C15_RowNeverUnderflows ==
    Drawn
        => /\ ~USubOverflows(cv.height, AsUsize(sim.proj.pos[2]))
           /\ pc # "panicked"
           /\ LeZero(sim.proj.pos[2]) => (pc = "done" /\ Serialized)

====
